---- MODULE Spec2Model ----
(***************************************************************************)
(* Model of the jail package (src/geth/account/importer.go, lines 28-338): *)
(* the Jail registry of JailedRuntime cells, Parse and Call on a cell, the *)
(* jeth.send / jeth.sendAsync bridge (Jail.Send) and the lazily resolved   *)
(* RPC client and request queue.                                           *)
(*                                                                         *)
(* Four specifications share the state:                                    *)
(*   Spec          goroutines running Parse and Call against the registry; *)
(*   SpecRegistry  the process from before the first New(): the singleton, *)
(*                 the accessors with what they return, and every entry    *)
(*                 point called on a nil *Jail, one call at a time;        *)
(*   SpecAccessors goroutines inside the two accessors at the same time,   *)
(*                 while nodes start and stop;                             *)
(*   SpecSend      one bridge Send invocation, step by step, called by the *)
(*                 script a goroutine is evaluating under Parse or under   *)
(*                 Call; that goroutine is inside Send, so it takes no     *)
(*                 other step.                                             *)
(*                                                                         *)
(* The semaphore of a cell is github.com/eapache/go-resiliency/semaphore:  *)
(* a channel of capacity 1; Acquire sends into it or gives up with         *)
(* ErrNoTickets once the timeout has passed; Release receives from it.     *)
(*                                                                         *)
(* Nothing guards jail.cells, jail.client, jail.requestQueue and           *)
(* jail.statusJS.  Every access to them, and every call into the node      *)
(* manager, is a step of its own, in Parse, in Call, in Send and in the    *)
(* accessors called on their own: the write of line 103, the read of line  *)
(* 104 and the read of line 106; the read of line 258, HasNode() (263),    *)
(* the call that hands out the object (268), the write of line 272 and the *)
(* read of line 274.  Between any two of them other goroutines run and     *)
(* nodes start and stop.  An access to the map that overlaps a write to it *)
(* is a data race: it goes through as one of the two orders, or the Go     *)
(* runtime ends the process (MapFault).                                    *)
(*                                                                         *)
(* Parse takes no gate, so the calls it makes into the VM are steps of     *)
(* their own as well: vm.Run(initJjs) (107), the installation of jeth      *)
(* (108-112), vm.Run(jjs) (122) and vm.Get("catalog") (124).  What another *)
(* goroutine does in the same VM falls between them.                       *)
(*                                                                         *)
(* The node manager is asked twice by an accessor: HasNode(), and then the *)
(* object itself, which can fail although HasNode() held.  It hands out    *)
(* one client wrapper and one request queue, which stay valid when the     *)
(* node restarts.                                                          *)
(*                                                                         *)
(* The scripts Parse and Call evaluate in Spec and SpecRegistry (Scripts,  *)
(* CallOutcomes) are scripts that call neither jeth.send nor               *)
(* jeth.sendAsync; SpecSend is the specification of the scripts that do.   *)
(***************************************************************************)
EXTENDS Integers, Sequences, FiniteSets, TLC

\* ------------------------------------------------------------- bounds
NumThreads == 2      \* goroutines calling into the jail
MaxCells == 3        \* JailedRuntime objects created in one behaviour
MaxRegistryCells == 2  \* JailedRuntime objects created in one behaviour of
                       \* SpecRegistry
MaxBatch == 2        \* longest batch handed to Send
NumReqIds == 2       \* distinct request ids

\* ------------------------------------------------------------- constants
JailedRuntimeRequestTimeout == 60
SemTickets == 1
ErrcCap == 1                 \* errc := make(chan error, 1)
InternalError == 0 - 32603   \* the code Send gives to newErrorResponse

Threads == 1..NumThreads
ChatIds == {"chatA", "chatB"}   \* the chat (session) ids passed to Parse and Call
CellRefs == 1..MaxCells
NoCell == 0
NoChat == ""         \* no chat id held
ReqIds == 1..NumReqIds
ZeroId == 0          \* req.Id of a geth.RPCCall nothing was decoded into
NullId == 0 - 1      \* the nil id: JSON null

\* *Jail values: nil, and the references a Jail object can have.
NoJail == "nil"
JailRefs == {"jail1", "jail2"}

\* *rpc.ClientRestartWrapper / *geth.JailedRequestQueue values: nil, and the
\* two objects the node manager hands out, which stay valid when the node
\* restarts.
NoHandle == "nil"
ManagerClient == "wrapper"
ManagerQueue == "queue"

VARIABLES
    \* geth.NodeManager (collaborator)
    node,          \* HasNode()
    \* package variables
    jailInstance,  \* jailInstance
    once,          \* once has run its function
    \* Jail
    client,        \* jail.client
    requestQueue,  \* jail.requestQueue
    statusJS,      \* jail.statusJS
    cells,         \* jail.cells: chat id -> cell reference (NoCell: no entry)
    \* JailedRuntime objects, by reference
    nextCell,      \* number of JailedRuntime objects created so far
    vm,            \* cell reference -> script globals defined in its otto VM
    sem,           \* cell reference -> tickets sitting in its semaphore channel
    \* goroutines in Parse / Call
    pc,            \* where the goroutine is: "idle"; in Parse "load",
                   \* "base", "run", "jeth", "parse", "get"; in Call "call.has", "call.ask",
                   \* "call.store", "lookup", "acquire", "vm", "release"; in
                   \* an accessor called on its own "client.has",
                   \* "client.ask", "client.store", "client.ret" and
                   \* "queue.has", ...; "fatal" once the runtime has ended
                   \* the process
    tcell,         \* the cell the goroutine works on
    tchat,         \* the chatId Parse was called with, between lines 103
                   \* and 104
    tobj,          \* the object the node manager gave the goroutine, not
                   \* stored yet (lines 268-272, 291-295)
    tbase,         \* the base script Parse read from jail.statusJS, between
                   \* lines 106 and 107
    terr,          \* the err of vm.Run(initJjs) in Parse ("": nil)
    ret,           \* what the last step returned to the caller of an entry
                   \* point other than Send (NoRet: the step returned from none)
    \* one Send invocation
    spc,           \* "idle"; in the accessors "client.has", "client.ask",
                   \* "client.store", "queue.read", "queue.has", "queue.ask",
                   \* "queue.store"; "args", "pre", "dispatch", "wait", "done"
    sarg,          \* call.Argument(0): [batch, cyclic, calls]
    scb,           \* call.Argument(1) is a Function
    sobj,          \* the object the node manager gave Send, not stored yet
    resps,         \* the resps array
    deferred,      \* deferred PostProcessRequest calls, oldest first
    hooklog,       \* hook and dispatch events, in the order they happened
    callret,       \* what client.Call gave: [raw: result, err: its error]
    errc,          \* the buffered channel errc
    relay,         \* the goroutine of lines 208-210: [pc, val]
    sresp,         \* the response value: [isArray, items]
    sout,          \* what Send returned: "none", "undefined", "response",
                   \* "thrown"
    cbcalls        \* the (err, response) pairs the callback was called with

nodeVars == <<node>>
instVars == <<jailInstance, once>>
jailVars == <<client, requestQueue, statusJS, cells, nextCell, vm, sem>>
threadVars == <<pc, tcell, tchat, tobj, tbase, terr>>
sendVars == <<spc, sarg, scb, sobj, resps, deferred, hooklog, callret, errc,
              relay, sresp, sout, cbcalls>>
vars == <<nodeVars, instVars, jailVars, threadVars, ret, sendVars>>

\* ------------------------------------------------------------- scripts
\* Script text is opaque; a script is modelled by what evaluating it does.
\* Of the globals of an otto VM two are kept: _status_catalog, which
\* scripts define, and catalog, which line 121 defines from it.  A global
\* is kept by the string JSON.stringify gives for its value; "undefined"
\* is the value undefined, and "undeclared" says that the VM has no
\* variable of the name _status_catalog, so that reading it throws a
\* ReferenceError.  (Reading catalog through vm.Get gives undefined in both
\* cases.)
CatalogTexts == {"{}", "{ping}", "7"}

\* The globals of otto.New()
NewVM == [status |-> "undeclared", catalog |-> "undefined"]

\* A script text, by what vm.Run does with it.  fail: where it stops:
\*   "none"    it runs to its end;
\*   "syntax"  it does not compile, nothing of it runs;
\*   "body"    it throws while it runs.
\* status, catalog: what it does to _status_catalog and to catalog before
\* it stops: "keep" (nothing), "declare" (var _status_catalog; with no
\* value), or the value it assigns.
\* The empty text: jail.statusJS of a Jail that New() made.
EmptyScript == [fail |-> "none", status |-> "keep", catalog |-> "keep"]

\* jail.statusJS, the text Init(js) was called with.
BaseScripts ==
    { EmptyScript,
      [fail |-> "syntax", status |-> "keep", catalog |-> "keep"],
      [fail |-> "none", status |-> "{}", catalog |-> "7"] }

\* The js argument of Parse.  A js that does not compile takes the web3
\* preamble and the trailer with it, which are one program with it; one
\* that throws stops after the preamble ran.
Scripts ==
    { [fail |-> "none", status |-> "{ping}", catalog |-> "keep"],
      [fail |-> "none", status |-> "keep", catalog |-> "keep"],
      [fail |-> "none", status |-> "declare", catalog |-> "keep"],
      [fail |-> "syntax", status |-> "keep", catalog |-> "keep"],
      [fail |-> "body", status |-> "{ping}", catalog |-> "keep"],
      [fail |-> "body", status |-> "keep", catalog |-> "keep"] }

\* What the function Call invokes can do to _status_catalog.
CallWrites == {"keep", "{ping}"}

\* ------------------------------------------------------------- envelopes
NoRet == [kind |-> "none", val |-> ""]

printError(error) == [kind |-> "error", val |-> error]

printResult(res, err) ==
    IF err # ""
    THEN printError(err)
    ELSE [kind |-> "result", val |-> IF res = "undefined" THEN "null" ELSE res]

ErrInvalidJail == "jail environment is not properly initialized"
ErrInvalidGethNode == "ErrInvalidGethNode"
ErrCellNotFound(chatId) == "Cell[" \o chatId \o "] doesn't exist."

\* What an entry point returns that is not a JSON string: (nil, err), a
\* handle with a nil error, the *Jail, the VM of a cell.
ErrValue(err) == [kind |-> "err", val |-> err]
HandleValue(h) == [kind |-> "handle", val |-> h]
JailValue(j) == [kind |-> "jail", val |-> j]
VMValue(c) == [kind |-> "vm", val |-> ToString(c)]

\* ------------------------------------------------------------- initial state
\* Every variable but jailInstance, once and jail.statusJS: no node, a Jail
\* with no cells and nothing resolved, no call under way.
InitFields ==
    /\ node = FALSE
    /\ client = NoHandle
    /\ requestQueue = NoHandle
    /\ cells = [id \in ChatIds |-> NoCell]
    /\ nextCell = 0
    /\ vm = [c \in CellRefs |-> NewVM]
    /\ sem = [c \in CellRefs |-> 0]
    /\ pc = [t \in Threads |-> "idle"]
    /\ tcell = [t \in Threads |-> NoCell]
    /\ tchat = [t \in Threads |-> NoChat]
    /\ tobj = [t \in Threads |-> NoHandle]
    /\ tbase = [t \in Threads |-> EmptyScript]
    /\ terr = [t \in Threads |-> ""]
    /\ sobj = NoHandle
    /\ ret = NoRet
    /\ spc = "idle"
    /\ sarg = [batch |-> FALSE, cyclic |-> FALSE, calls |-> <<>>]
    /\ scb = FALSE
    /\ resps = <<>>
    /\ deferred = <<>>
    /\ hooklog = <<>>
    /\ callret = [raw |-> "", err |-> [kind |-> "nil", code |-> 0, msg |-> ""]]
    /\ errc = <<>>
    /\ relay = [pc |-> "none", val |-> [kind |-> "nil", code |-> 0, msg |-> ""]]
    /\ sresp = [isArray |-> FALSE, items |-> <<>>]
    /\ sout = "none"
    /\ cbcalls = <<>>

\* Init(js): a registry with its base script and no cells; nothing resolved;
\* no node running.
Init ==
    /\ jailInstance = "jail1"
    /\ once = TRUE
    /\ statusJS \in BaseScripts
    /\ InitFields

\* The process before the first New(), Init(js) or GetInstance().
InitProcess ==
    /\ jailInstance = NoJail
    /\ once = FALSE
    /\ statusJS = EmptyScript
    /\ InitFields

\* ------------------------------------------------------------- node manager
\* A node starts.
NodeStart ==
    /\ ~node
    /\ node' = TRUE
    /\ ret' = NoRet
    /\ UNCHANGED <<instVars, jailVars, threadVars, sendVars>>

NodeStop ==
    /\ node
    /\ node' = FALSE
    /\ ret' = NoRet
    /\ UNCHANGED <<instVars, jailVars, threadVars, sendVars>>

\* ------------------------------------------------------------- singleton
\* &Jail{cells: make(map[string]*JailedRuntime)}: a reference no Jail had.
NewJail(inst) == CHOOSE r \in JailRefs : r # inst

\* once.Do as it would be if it ran its function on every call.
OnceDoAlways(done, inst) == NewJail(inst)

\* once.Do(func() { jailInstance = &Jail{...} }): the value of jailInstance
\* afterwards.
OnceDo(done, inst) == IF done THEN inst ELSE NewJail(inst)

\* New()
New ==
    /\ jailInstance' = OnceDo(once, jailInstance)
    /\ once' = TRUE
    /\ IF jailInstance' # jailInstance
       THEN /\ client' = NoHandle
            /\ requestQueue' = NoHandle
            /\ statusJS' = EmptyScript
            /\ cells' = [id \in ChatIds |-> NoCell]
       ELSE UNCHANGED <<client, requestQueue, statusJS, cells>>
    /\ ret' = JailValue(jailInstance')
    /\ UNCHANGED <<nodeVars, nextCell, vm, sem, threadVars, sendVars>>

\* GetInstance(): return New()
GetInstance ==
    /\ jailInstance' = OnceDo(once, jailInstance)
    /\ once' = TRUE
    /\ IF jailInstance' # jailInstance
       THEN /\ client' = NoHandle
            /\ requestQueue' = NoHandle
            /\ statusJS' = EmptyScript
            /\ cells' = [id \in ChatIds |-> NoCell]
       ELSE UNCHANGED <<client, requestQueue, statusJS, cells>>
    /\ ret' = JailValue(jailInstance')
    /\ UNCHANGED <<nodeVars, nextCell, vm, sem, threadVars, sendVars>>

\* Init(js): jailInstance = New(); jailInstance.statusJS = js
InitJS(js) ==
    /\ jailInstance' = OnceDo(once, jailInstance)
    /\ once' = TRUE
    /\ IF jailInstance' # jailInstance
       THEN /\ client' = NoHandle
            /\ requestQueue' = NoHandle
            /\ cells' = [id \in ChatIds |-> NoCell]
       ELSE UNCHANGED <<client, requestQueue, cells>>
    /\ statusJS' = js
    /\ ret' = JailValue(jailInstance')
    /\ UNCHANGED <<nodeVars, nextCell, vm, sem, threadVars, sendVars>>

\* ------------------------------------------------------------- accessors
\* Every access of an accessor to what goroutines share is a step of its
\* own: the read of the field, HasNode(), the call into the node manager,
\* the store into the field, and the read of the field that is returned.

\* The error nodeManager.ClientRestartWrapper() / nodeManager.JailedRequestQueue()
\* returns when it returns one.
ErrNodeManager == "node manager error"

\* What the node manager can answer when it is asked for the object h it
\* hands out: the object, or an error.
Resolutions(h) ==
    { [ok |-> TRUE, val |-> h], [ok |-> FALSE, val |-> ErrNodeManager] }

\* jail.ClientRestartWrapper() as it would be if it did not look at
\* jail.client before it resolves.
ClientRestartWrapperUncached(t) ==
    /\ jailInstance # NoJail
    /\ pc[t] = "idle"
    /\ ret' = NoRet
    /\ pc' = [pc EXCEPT ![t] = "client.has"]
    /\ UNCHANGED <<nodeVars, instVars, jailVars, tcell, tchat, tobj, tbase, terr, sendVars>>

\* jail.ClientRestartWrapper() called by goroutine t, lines 254-260.
ClientRestartWrapper(t) ==
    /\ jailInstance # NoJail
    /\ pc[t] = "idle"
    /\ IF client # NoHandle
       THEN ret' = HandleValue(client) /\ pc' = pc
       ELSE ret' = NoRet /\ pc' = [pc EXCEPT ![t] = "client.has"]
    /\ UNCHANGED <<nodeVars, instVars, jailVars, tcell, tchat, tobj, tbase, terr, sendVars>>

\* lines 262-265: nodeManager.HasNode()
ClientHasNode(t) ==
    /\ pc[t] = "client.has"
    /\ IF ~node
       THEN ret' = ErrValue(ErrInvalidGethNode) /\ pc' = [pc EXCEPT ![t] = "idle"]
       ELSE ret' = NoRet /\ pc' = [pc EXCEPT ![t] = "client.ask"]
    /\ UNCHANGED <<nodeVars, instVars, jailVars, tcell, tchat, tobj, tbase, terr, sendVars>>

\* lines 268-271: client, err := nodeManager.ClientRestartWrapper(), which
\* answers r.
ClientAsk(t, r) ==
    /\ pc[t] = "client.ask"
    /\ r \in Resolutions(ManagerClient)
    /\ IF r.ok
       THEN /\ tobj' = [tobj EXCEPT ![t] = r.val]
            /\ ret' = NoRet
            /\ pc' = [pc EXCEPT ![t] = "client.store"]
       ELSE /\ tobj' = tobj
            /\ ret' = ErrValue(r.val)
            /\ pc' = [pc EXCEPT ![t] = "idle"]
    /\ UNCHANGED <<nodeVars, instVars, jailVars, tcell, tchat, tbase, terr, sendVars>>

\* line 272: jail.client = client, whatever the field holds by now.
ClientStore(t) ==
    /\ pc[t] = "client.store"
    /\ client' = tobj[t]
    /\ tobj' = [tobj EXCEPT ![t] = NoHandle]
    /\ pc' = [pc EXCEPT ![t] = "client.ret"]
    /\ ret' = NoRet
    /\ UNCHANGED <<nodeVars, instVars, requestQueue, statusJS, cells, nextCell,
                   vm, sem, tcell, tchat, tbase, terr, sendVars>>

\* line 274: return jail.client, nil
ClientReturn(t) ==
    /\ pc[t] = "client.ret"
    /\ ret' = HandleValue(client)
    /\ pc' = [pc EXCEPT ![t] = "idle"]
    /\ UNCHANGED <<nodeVars, instVars, jailVars, tcell, tchat, tobj, tbase, terr, sendVars>>

\* jail.RequestQueue() called by goroutine t, lines 278-284.
RequestQueue(t) ==
    /\ jailInstance # NoJail
    /\ pc[t] = "idle"
    /\ IF requestQueue # NoHandle
       THEN ret' = HandleValue(requestQueue) /\ pc' = pc
       ELSE ret' = NoRet /\ pc' = [pc EXCEPT ![t] = "queue.has"]
    /\ UNCHANGED <<nodeVars, instVars, jailVars, tcell, tchat, tobj, tbase, terr, sendVars>>

\* lines 286-289: nodeManager.HasNode()
QueueHasNode(t) ==
    /\ pc[t] = "queue.has"
    /\ IF ~node
       THEN ret' = ErrValue(ErrInvalidGethNode) /\ pc' = [pc EXCEPT ![t] = "idle"]
       ELSE ret' = NoRet /\ pc' = [pc EXCEPT ![t] = "queue.ask"]
    /\ UNCHANGED <<nodeVars, instVars, jailVars, tcell, tchat, tobj, tbase, terr, sendVars>>

\* lines 291-294: requestQueue, err := nodeManager.JailedRequestQueue(),
\* which answers r.
QueueAsk(t, r) ==
    /\ pc[t] = "queue.ask"
    /\ r \in Resolutions(ManagerQueue)
    /\ IF r.ok
       THEN /\ tobj' = [tobj EXCEPT ![t] = r.val]
            /\ ret' = NoRet
            /\ pc' = [pc EXCEPT ![t] = "queue.store"]
       ELSE /\ tobj' = tobj
            /\ ret' = ErrValue(r.val)
            /\ pc' = [pc EXCEPT ![t] = "idle"]
    /\ UNCHANGED <<nodeVars, instVars, jailVars, tcell, tchat, tbase, terr, sendVars>>

\* line 295: jail.requestQueue = requestQueue
QueueStore(t) ==
    /\ pc[t] = "queue.store"
    /\ requestQueue' = tobj[t]
    /\ tobj' = [tobj EXCEPT ![t] = NoHandle]
    /\ pc' = [pc EXCEPT ![t] = "queue.ret"]
    /\ ret' = NoRet
    /\ UNCHANGED <<nodeVars, instVars, client, statusJS, cells, nextCell, vm,
                   sem, tcell, tchat, tbase, terr, sendVars>>

\* line 297: return jail.requestQueue, nil
QueueReturn(t) ==
    /\ pc[t] = "queue.ret"
    /\ ret' = HandleValue(requestQueue)
    /\ pc' = [pc EXCEPT ![t] = "idle"]
    /\ UNCHANGED <<nodeVars, instVars, jailVars, tcell, tchat, tobj, tbase, terr, sendVars>>

\* GetVM(chatId)
GetVM(chatId) ==
    /\ jailInstance # NoJail
    /\ ret' = IF cells[chatId] = NoCell
              THEN ErrValue(ErrCellNotFound(chatId))
              ELSE VMValue(cells[chatId])
    /\ UNCHANGED <<nodeVars, instVars, jailVars, threadVars, sendVars>>

\* ------------------------------------------------------------- nil receiver
\* The entry points called on a nil *Jail.

\* Parse as it would be without the check of lines 99-101: the write to
\* jail.cells dereferences nil.
ParseNilUnchecked(t) ==
    /\ pc[t] = "idle"
    /\ ret' = [kind |-> "panic", val |-> "nil pointer dereference"]
    /\ UNCHANGED <<nodeVars, instVars, jailVars, threadVars, sendVars>>

\* Parse: if jail == nil { return printError(ErrInvalidJail.Error()) }
ParseNil(t) ==
    /\ pc[t] = "idle"
    /\ ret' = printError(ErrInvalidJail)
    /\ UNCHANGED <<nodeVars, instVars, jailVars, threadVars, sendVars>>

\* Call: jail.ClientRestartWrapper() returns ErrInvalidJail; Call returns
\* printError(err.Error())
CallNil(t) ==
    /\ pc[t] = "idle"
    /\ ret' = printError(ErrInvalidJail)
    /\ UNCHANGED <<nodeVars, instVars, jailVars, threadVars, sendVars>>

\* GetVM: return nil, ErrInvalidJail
GetVMNil ==
    /\ ret' = ErrValue(ErrInvalidJail)
    /\ UNCHANGED <<nodeVars, instVars, jailVars, threadVars, sendVars>>

\* ClientRestartWrapper: return nil, ErrInvalidJail
ClientRestartWrapperNil ==
    /\ ret' = ErrValue(ErrInvalidJail)
    /\ UNCHANGED <<nodeVars, instVars, jailVars, threadVars, sendVars>>

\* RequestQueue: return nil, ErrInvalidJail
RequestQueueNil ==
    /\ ret' = ErrValue(ErrInvalidJail)
    /\ UNCHANGED <<nodeVars, instVars, jailVars, threadVars, sendVars>>

\* ------------------------------------------------------------- Parse
\* Parse as it would be if the new JailedRuntime reused the otto VM of the
\* cell it replaces.
ParseStartKeepingVM(t, chatId) ==
    /\ jailInstance # NoJail
    /\ pc[t] = "idle"
    /\ nextCell < MaxCells
    /\ LET c == nextCell + 1 IN
        /\ nextCell' = c
        /\ cells' = [cells EXCEPT ![chatId] = c]
        /\ vm' = [vm EXCEPT ![c] = IF cells[chatId] = NoCell THEN NewVM
                                   ELSE vm[cells[chatId]]]
        /\ sem' = [sem EXCEPT ![c] = 0]
    /\ pc' = [pc EXCEPT ![t] = "load"]
    /\ tchat' = [tchat EXCEPT ![t] = chatId]
    /\ ret' = NoRet
    /\ UNCHANGED <<nodeVars, instVars, client, requestQueue, statusJS, tcell,
                   tobj, tbase, terr, sendVars>>

\* line 103: jail.cells[chatId] = NewJailedRuntime(chatId)
ParseStart(t, chatId) ==
    /\ jailInstance # NoJail
    /\ pc[t] = "idle"
    /\ nextCell < MaxCells
    /\ LET c == nextCell + 1 IN
        /\ nextCell' = c
        /\ cells' = [cells EXCEPT ![chatId] = c]
        /\ vm' = [vm EXCEPT ![c] = NewVM]
        /\ sem' = [sem EXCEPT ![c] = 0]
    /\ pc' = [pc EXCEPT ![t] = "load"]
    /\ tchat' = [tchat EXCEPT ![t] = chatId]
    /\ ret' = NoRet
    /\ UNCHANGED <<nodeVars, instVars, client, requestQueue, statusJS, tcell,
                   tobj, tbase, terr, sendVars>>

\* line 104: vm := jail.cells[chatId].vm, the VM of the cell the map holds
\* for chatId by now.
ParseLoad(t) ==
    /\ pc[t] = "load"
    /\ tcell' = [tcell EXCEPT ![t] = cells[tchat[t]]]
    /\ tchat' = [tchat EXCEPT ![t] = NoChat]
    /\ pc' = [pc EXCEPT ![t] = "base"]
    /\ ret' = NoRet
    /\ UNCHANGED <<nodeVars, instVars, jailVars, tobj, tbase, terr, sendVars>>

\* What the caller of the process sees when the Go runtime ends it.
FatalMapAccess == [kind |-> "fatal", val |-> "concurrent map access"]

\* The write of line 103 by goroutine t is overlapped by an access of
\* goroutine u to jail.cells (the write of line 103, the read of line 104
\* or the read of line 135), and the runtime, which detects it, ends the
\* process.
MapFault(t, u) ==
    /\ t # u
    /\ pc[t] = "load"
    /\ pc[u] \in {"idle", "load", "lookup"}
    /\ pc' = [x \in Threads |-> "fatal"]
    /\ tcell' = [x \in Threads |-> NoCell]
    /\ tchat' = [x \in Threads |-> NoChat]
    /\ tobj' = [x \in Threads |-> NoHandle]
    /\ tbase' = [x \in Threads |-> EmptyScript]
    /\ terr' = [x \in Threads |-> ""]
    /\ ret' = FatalMapAccess
    /\ UNCHANGED <<nodeVars, instVars, jailVars, sendVars>>

\* A global after a script wrote w to it
Written(old, w) ==
    CASE w = "keep" -> old
      [] w = "declare" -> IF old = "undeclared" THEN "undefined" ELSE old
      [] OTHER -> w

\* The globals of a VM after vm.Run ran the script text src in a VM that
\* held globals.
Run(globals, src) ==
    IF src.fail = "syntax"
    THEN globals
    ELSE [status |-> Written(globals.status, src.status),
          catalog |-> Written(globals.catalog, src.catalog)]

\* vm.Run(jjs) returns an error: js stops it, or the trailer
\* "var catalog = JSON.stringify(_status_catalog)" throws because no
\* variable _status_catalog is declared.
RunFails(globals, js) ==
    js.fail # "none" \/ Run(globals, js).status = "undeclared"

\* The globals of a VM after vm.Run(jjs) (line 122) in a VM that held
\* globals: what js did before it stopped, and catalog, when the trailer
\* ran (JSON.stringify gives undefined for undefined).
Bootstrapped(globals, js) ==
    IF RunFails(globals, js)
    THEN Run(globals, js)
    ELSE [Run(globals, js) EXCEPT !.catalog = Run(globals, js).status]

\* res.String() of vm.Get("catalog") (line 124) in a VM that holds globals
CatalogString(globals) == globals.catalog

\* The err of vm.Run(initJjs), initJjs being the base script base ("": nil).
ParseErr(base) == IF base.fail = "none" THEN "" ELSE "base script error"

\* line 106: initJjs := jail.statusJS + ";"
ParseInitJjs(t) ==
    /\ pc[t] = "base"
    /\ tbase' = [tbase EXCEPT ![t] = statusJS]
    /\ pc' = [pc EXCEPT ![t] = "run"]
    /\ ret' = NoRet
    /\ UNCHANGED <<nodeVars, instVars, jailVars, tcell, tchat, tobj, terr, sendVars>>

\* line 107: _, err := vm.Run(initJjs), in the VM as it is by now
ParseBase(t) ==
    /\ pc[t] = "run"
    /\ vm' = [vm EXCEPT ![tcell[t]] = Run(@, tbase[t])]
    /\ terr' = [terr EXCEPT ![t] = ParseErr(tbase[t])]
    /\ tbase' = [tbase EXCEPT ![t] = EmptyScript]
    /\ pc' = [pc EXCEPT ![t] = "jeth"]
    /\ ret' = NoRet
    /\ UNCHANGED <<nodeVars, instVars, client, requestQueue, statusJS, cells,
                   nextCell, sem, tcell, tchat, tobj, sendVars>>

\* lines 108-112: vm.Set("jeth", struct{}{}) and the two Set calls on the
\* object, which give the VM its global jeth and touch neither
\* _status_catalog nor catalog.
ParseJeth(t) ==
    /\ pc[t] = "jeth"
    /\ pc' = [pc EXCEPT ![t] = "parse"]
    /\ ret' = NoRet
    /\ UNCHANGED <<nodeVars, instVars, jailVars, tcell, tchat, tobj, tbase, terr,
                   sendVars>>

\* lines 113-122: vm.Run(jjs), whose error is dropped, js being the text
\* Parse was called with.
ParseEval(t, js) ==
    /\ pc[t] = "parse"
    /\ vm' = [vm EXCEPT ![tcell[t]] = Bootstrapped(@, js)]
    /\ pc' = [pc EXCEPT ![t] = "get"]
    /\ ret' = NoRet
    /\ UNCHANGED <<nodeVars, instVars, client, requestQueue, statusJS, cells,
                   nextCell, sem, tcell, tchat, tobj, tbase, terr, sendVars>>

\* lines 124-126: res, _ := vm.Get("catalog"), which reads what the VM
\* holds by now, and return printResult(res.String(), err), err being the
\* one of line 107.
ParseReturn(t) ==
    /\ pc[t] = "get"
    /\ ret' = printResult(CatalogString(vm[tcell[t]]), terr[t])
    /\ pc' = [pc EXCEPT ![t] = "idle"]
    /\ tcell' = [tcell EXCEPT ![t] = NoCell]
    /\ terr' = [terr EXCEPT ![t] = ""]
    /\ UNCHANGED <<nodeVars, instVars, jailVars, tchat, tobj, tbase, sendVars>>

\* ------------------------------------------------------------- Call
\* What cell.vm.Call("call", nil, path, args) can return: the string of the
\* value and the error ("": nil).
CallOutcomes ==
    { [res |-> "pong", err |-> ""],
      [res |-> "undefined", err |-> ""],
      [res |-> "undefined", err |-> "ReferenceError"] }

\* Call(chatId, path, args) by goroutine t: jail.ClientRestartWrapper(),
\* lines 254-260; its value is dropped by Call.
CallStart(t) ==
    /\ jailInstance # NoJail
    /\ pc[t] = "idle"
    /\ pc' = [pc EXCEPT ![t] = IF client # NoHandle THEN "lookup" ELSE "call.has"]
    /\ ret' = NoRet
    /\ UNCHANGED <<nodeVars, instVars, jailVars, tcell, tchat, tobj, tbase, terr, sendVars>>

\* lines 262-265 and 131-133
CallHasNode(t) ==
    /\ pc[t] = "call.has"
    /\ IF ~node
       THEN ret' = printError(ErrInvalidGethNode) /\ pc' = [pc EXCEPT ![t] = "idle"]
       ELSE ret' = NoRet /\ pc' = [pc EXCEPT ![t] = "call.ask"]
    /\ UNCHANGED <<nodeVars, instVars, jailVars, tcell, tchat, tobj, tbase, terr, sendVars>>

\* lines 268-271 and 131-133: the node manager answers r.
CallAsk(t, r) ==
    /\ pc[t] = "call.ask"
    /\ r \in Resolutions(ManagerClient)
    /\ IF r.ok
       THEN /\ tobj' = [tobj EXCEPT ![t] = r.val]
            /\ ret' = NoRet
            /\ pc' = [pc EXCEPT ![t] = "call.store"]
       ELSE /\ tobj' = tobj
            /\ ret' = printError(r.val)
            /\ pc' = [pc EXCEPT ![t] = "idle"]
    /\ UNCHANGED <<nodeVars, instVars, jailVars, tcell, tchat, tbase, terr, sendVars>>

\* lines 272-274: jail.client = client
CallStore(t) ==
    /\ pc[t] = "call.store"
    /\ client' = tobj[t]
    /\ tobj' = [tobj EXCEPT ![t] = NoHandle]
    /\ pc' = [pc EXCEPT ![t] = "lookup"]
    /\ ret' = NoRet
    /\ UNCHANGED <<nodeVars, instVars, requestQueue, statusJS, cells, nextCell,
                   vm, sem, tcell, tchat, tbase, terr, sendVars>>

\* Call as it would be if a missing cell were created on the way.
CallLookupCreating(t, chatId) ==
    /\ pc[t] = "lookup"
    /\ IF cells[chatId] = NoCell
       THEN /\ ret' = printError(ErrCellNotFound(chatId))
            /\ nextCell < MaxCells
            /\ nextCell' = nextCell + 1
            /\ cells' = [cells EXCEPT ![chatId] = nextCell + 1]
            /\ pc' = [pc EXCEPT ![t] = "idle"]
            /\ UNCHANGED tcell
       ELSE /\ ret' = NoRet
            /\ pc' = [pc EXCEPT ![t] = "acquire"]
            /\ tcell' = [tcell EXCEPT ![t] = cells[chatId]]
            /\ UNCHANGED <<cells, nextCell>>
    /\ UNCHANGED <<nodeVars, instVars, client, requestQueue, statusJS, vm, sem,
                   tchat, tobj, tbase, terr, sendVars>>

\* lines 135-138: cell, ok := jail.cells[chatId], chatId being the id Call
\* was called with, which it uses here for the first time.
CallLookup(t, chatId) ==
    /\ pc[t] = "lookup"
    /\ IF cells[chatId] = NoCell
       THEN /\ ret' = printError(ErrCellNotFound(chatId))
            /\ pc' = [pc EXCEPT ![t] = "idle"]
            /\ UNCHANGED tcell
       ELSE /\ ret' = NoRet
            /\ pc' = [pc EXCEPT ![t] = "acquire"]
            /\ tcell' = [tcell EXCEPT ![t] = cells[chatId]]
    /\ UNCHANGED <<nodeVars, instVars, jailVars, tchat, tobj, tbase, terr, sendVars>>

\* One semaphore shared by every cell.
SharedGate(c) == 1

\* The semaphore channel of the cell: each JailedRuntime has its own,
\* semaphore.New(1, JailedRuntimeRequestTimeout).
GateOf(c) == c

\* cell.sem.Acquire() puts a ticket into the channel and returns nil.
Acquire(t) ==
    /\ pc[t] = "acquire"
    /\ sem[GateOf(tcell[t])] < SemTickets
    /\ sem' = [sem EXCEPT ![GateOf(tcell[t])] = @ + 1]
    /\ pc' = [pc EXCEPT ![t] = "vm"]
    /\ UNCHANGED <<nodeVars, instVars, client, requestQueue, statusJS, cells, nextCell, vm,
                   tcell, tchat, tobj, tbase, terr, sendVars>>
    /\ ret' = NoRet

\* cell.sem.Acquire() finds the channel full for JailedRuntimeRequestTimeout
\* and returns ErrNoTickets; Call drops the returned error and goes on.
AcquireTimeout(t) ==
    /\ pc[t] = "acquire"
    /\ sem[GateOf(tcell[t])] = SemTickets
    /\ pc' = [pc EXCEPT ![t] = "vm"]
    /\ UNCHANGED <<nodeVars, instVars, client, requestQueue, statusJS, cells, nextCell, vm, sem,
                   tcell, tchat, tobj, tbase, terr, sendVars>>
    /\ ret' = NoRet

\* cell.vm.Call("call", nil, path, args) runs the script function, which
\* gives _status_catalog the value w ("keep": it does not assign it), and
\* comes back.
CallVM(t, w) ==
    /\ pc[t] = "vm"
    /\ vm' = [vm EXCEPT ![tcell[t]].status = IF w = "keep" THEN @ ELSE w]
    /\ pc' = [pc EXCEPT ![t] = "release"]
    /\ UNCHANGED <<nodeVars, instVars, client, requestQueue, statusJS, cells, nextCell, sem,
                   tcell, tchat, tobj, tbase, terr, sendVars>>
    /\ ret' = NoRet

\* return printResult(res.String(), err), o being what vm.Call returned, after
\* the deferred cell.sem.Release(): it takes a ticket out of the channel and
\* blocks while the channel is empty.
Release(t, o) ==
    /\ pc[t] = "release"
    /\ sem[GateOf(tcell[t])] > 0
    /\ sem' = [sem EXCEPT ![GateOf(tcell[t])] = @ - 1]
    /\ ret' = printResult(o.res, o.err)
    /\ pc' = [pc EXCEPT ![t] = "idle"]
    /\ tcell' = [tcell EXCEPT ![t] = NoCell]
    /\ UNCHANGED <<nodeVars, instVars, client, requestQueue, statusJS, cells, nextCell, vm,
                   tchat, tobj, tbase, terr, sendVars>>

\* ------------------------------------------------------------- Spec
Next ==
    \/ NodeStart
    \/ NodeStop
    \/ \E t \in Threads, chatId \in ChatIds : ParseStart(t, chatId)
    \/ \E t \in Threads : ParseLoad(t)
    \/ \E t, u \in Threads : MapFault(t, u)
    \/ \E t \in Threads : ParseInitJjs(t)
    \/ \E t \in Threads : ParseBase(t)
    \/ \E t \in Threads : ParseJeth(t)
    \/ \E t \in Threads, js \in Scripts : ParseEval(t, js)
    \/ \E t \in Threads : ParseReturn(t)
    \/ \E t \in Threads : CallStart(t)
    \/ \E t \in Threads : CallHasNode(t)
    \/ \E t \in Threads, r \in Resolutions(ManagerClient) : CallAsk(t, r)
    \/ \E t \in Threads : CallStore(t)
    \/ \E t \in Threads, chatId \in ChatIds : CallLookup(t, chatId)
    \/ \E t \in Threads : Acquire(t)
    \/ \E t \in Threads : AcquireTimeout(t)
    \/ \E t \in Threads, w \in CallWrites : CallVM(t, w)
    \/ \E t \in Threads, o \in CallOutcomes : Release(t, o)

Spec == Init /\ [][Next]_vars

\* ------------------------------------------------------------- Send
Methods == {"eth_blockNumber"}

\* geth.RPCCall, as far as Send reads it.
RPCCalls == [id : ReqIds, method : Methods]

\* The geth.RPCCall json.Unmarshal decoded nothing into.
ZeroCall == [id |-> ZeroId, method |-> ""]

\* The script values Send is called with: an object that is a call (obj), or
\* a value that is none (id and method stand for nothing then).  Of these,
\* NonCall is one whose JSON text json.Unmarshal returns an error for: a
\* number, a string, undefined as the whole argument; Null is one whose JSON
\* text is null: null, and undefined or a function as an element of an
\* array.
CallValue(c) == [obj |-> TRUE, null |-> FALSE, id |-> c.id, method |-> c.method]
NonCall == [obj |-> FALSE, null |-> FALSE, id |-> ZeroId, method |-> ""]
Null == [obj |-> FALSE, null |-> TRUE, id |-> ZeroId, method |-> ""]
Values == {CallValue(c) : c \in RPCCalls} \cup {NonCall, Null}

RECURSIVE SeqsUpTo(_, _)
SeqsUpTo(S, n) ==
    IF n = 0 THEN {<<>>}
    ELSE LET shorter == SeqsUpTo(S, n - 1) IN
         shorter \cup {Append(q, x) : q \in {r \in shorter : Len(r) = n - 1}, x \in S}

\* call.Argument(0): one value or an array of values (batch), or a value
\* JSON.stringify throws on (cyclic).
SendArgs ==
    {[batch |-> FALSE, cyclic |-> FALSE, calls |-> <<v>>] : v \in Values}
        \cup {[batch |-> TRUE, cyclic |-> FALSE, calls |-> q] : q \in SeqsUpTo(Values, MaxBatch)}
        \cup {[batch |-> FALSE, cyclic |-> TRUE, calls |-> <<>>]}

\* JSON.stringify gives a text for the argument and json.Unmarshal returns
\* no error for it: every value is an object or null (null leaves the
\* RPCCall as it is).
Decodable(arg) ==
    ~arg.cyclic /\ \A i \in 1..Len(arg.calls) : arg.calls[i].obj \/ arg.calls[i].null

\* json.Unmarshal of one value into a geth.RPCCall, its error dropped.
Unmarshal(v) == IF v.obj THEN [id |-> v.id, method |-> v.method] ELSE ZeroCall

\* reqs after lines 185-192: rawReq[0] == '[' decides batch; every element
\* is decoded, whatever json.Unmarshal returned.
Reqs(arg) == [i \in 1..Len(arg.calls) |-> Unmarshal(arg.calls[i])]

\* Errors, as far as the switch of Send tells them apart: nil, an rpc.Error
\* with its code, any other error.
NoErr == [kind |-> "nil", code |-> 0, msg |-> ""]

\* What client.Call(&result, req.Method, req.Params...) can give: result (raw,
\* "": left nil) and its error.
Outcomes ==
    { [raw |-> "0x1", err |-> NoErr],
      [raw |-> "", err |-> NoErr],
      [raw |-> "{", err |-> NoErr],
      [raw |-> "", err |-> [kind |-> "rpc", code |-> 0 - 32601, msg |-> "method not found"]],
      [raw |-> "", err |-> [kind |-> "other", code |-> 0, msg |-> "connection refused"]] }

\* JSON.Call("parse", string(result)): the value, written as its JSON text,
\* or the error.
JSONParse(raw) ==
    IF raw = "{" THEN [ok |-> FALSE, val |-> "SyntaxError"] ELSE [ok |-> TRUE, val |-> raw]

\* otto.NullValue(), written as its JSON text.
NullValue == "null"

\* resp.Set("result", v) on ({"jsonrpc":"2.0"}) with its id set.
ResultResponse(id, v) ==
    [verKey |-> "jsonrpc", id |-> id, member |-> "result", value |-> v,
     code |-> 0, msgKey |-> "", msg |-> ""]

\* resp.Set("error", {"code": code, "message": msg})
RpcErrorResponse(id, code, msg) ==
    [verKey |-> "jsonrpc", id |-> id, member |-> "error", value |-> "",
     code |-> code, msgKey |-> "message", msg |-> msg]

\* {"version": "2.0", "id": id, "error": {"code": code, msg: msg}}
newErrorResponse(code, msg, id) ==
    [verKey |-> "version", id |-> id, member |-> "error", value |-> "",
     code |-> code, msgKey |-> msg, msg |-> msg]

\* The switch on err, the error Send received from errc2: the response
\* pushed for req, raw being the result client.Call left.
Classify(req, raw, err) ==
    CASE err.kind = "nil" ->
            IF raw = "" THEN ResultResponse(req.id, NullValue)
            ELSE IF JSONParse(raw).ok THEN ResultResponse(req.id, JSONParse(raw).val)
            ELSE newErrorResponse(InternalError, JSONParse(raw).val, req.id)
      [] err.kind = "rpc" -> RpcErrorResponse(req.id, err.code, err.msg)
      [] OTHER -> newErrorResponse(InternalError, err.msg, req.id)

HookEvent(ev, i, req) == [ev |-> ev, i |-> i, req |-> req]

RECURSIVE Reverse(_)
Reverse(q) == IF q = <<>> THEN <<>> ELSE Append(Reverse(Tail(q)), Head(q))

\* Deferred calls run last registered first.
RunDeferred(d) == Reverse(d)

\* Send returns newErrorResponse(call, -32603, msg, nil), lines 166 and 171.
SendFail(msg) ==
    /\ sresp' = [isArray |-> FALSE,
                 items |-> <<newErrorResponse(InternalError, msg, NullId)>>]
    /\ sout' = "response"
    /\ spc' = "done"

\* jeth.send(arg, cb) / jeth.sendAsync(arg, cb) is called from a script some
\* goroutine is evaluating: line 164, jail.ClientRestartWrapper(), lines
\* 254-260.
SendStart(arg, cb) ==
    /\ spc = "idle"
    /\ \E t \in Threads : pc[t] \in {"parse", "vm"}
    /\ sarg' = arg
    /\ scb' = cb
    /\ spc' = IF client # NoHandle THEN "queue.read" ELSE "client.has"
    /\ ret' = NoRet
    /\ UNCHANGED <<nodeVars, instVars, jailVars, threadVars, sobj, resps,
                   deferred, hooklog, callret, errc, relay, sresp, sout,
                   cbcalls>>

\* lines 262-265 and 165-167
SendClientHasNode ==
    /\ spc = "client.has"
    /\ IF ~node
       THEN SendFail(ErrInvalidGethNode)
       ELSE spc' = "client.ask" /\ UNCHANGED <<sresp, sout>>
    /\ ret' = NoRet
    /\ UNCHANGED <<nodeVars, instVars, jailVars, threadVars, sarg, scb, sobj,
                   resps, deferred, hooklog, callret, errc, relay, cbcalls>>

\* lines 268-271 and 165-167: the node manager answers r.
SendClientAsk(r) ==
    /\ spc = "client.ask"
    /\ r \in Resolutions(ManagerClient)
    /\ IF r.ok
       THEN sobj' = r.val /\ spc' = "client.store" /\ UNCHANGED <<sresp, sout>>
       ELSE sobj' = sobj /\ SendFail(r.val)
    /\ ret' = NoRet
    /\ UNCHANGED <<nodeVars, instVars, jailVars, threadVars, sarg, scb, resps,
                   deferred, hooklog, callret, errc, relay, cbcalls>>

\* lines 272-274: jail.client = client; clientFactory is the object Send
\* asks for a client in the loop.
SendClientStore ==
    /\ spc = "client.store"
    /\ client' = sobj
    /\ sobj' = NoHandle
    /\ spc' = "queue.read"
    /\ ret' = NoRet
    /\ UNCHANGED <<nodeVars, instVars, requestQueue, statusJS, cells, nextCell,
                   vm, sem, threadVars, sarg, scb, resps, deferred, hooklog,
                   callret, errc, relay, sresp, sout, cbcalls>>

\* line 169, jail.RequestQueue(), lines 278-284
SendQueueRead ==
    /\ spc = "queue.read"
    /\ spc' = IF requestQueue # NoHandle THEN "args" ELSE "queue.has"
    /\ ret' = NoRet
    /\ UNCHANGED <<nodeVars, instVars, jailVars, threadVars, sarg, scb, sobj,
                   resps, deferred, hooklog, callret, errc, relay, sresp, sout,
                   cbcalls>>

\* lines 286-289 and 170-172
SendQueueHasNode ==
    /\ spc = "queue.has"
    /\ IF ~node
       THEN SendFail(ErrInvalidGethNode)
       ELSE spc' = "queue.ask" /\ UNCHANGED <<sresp, sout>>
    /\ ret' = NoRet
    /\ UNCHANGED <<nodeVars, instVars, jailVars, threadVars, sarg, scb, sobj,
                   resps, deferred, hooklog, callret, errc, relay, cbcalls>>

\* lines 291-294 and 170-172: the node manager answers r.
SendQueueAsk(r) ==
    /\ spc = "queue.ask"
    /\ r \in Resolutions(ManagerQueue)
    /\ IF r.ok
       THEN sobj' = r.val /\ spc' = "queue.store" /\ UNCHANGED <<sresp, sout>>
       ELSE sobj' = sobj /\ SendFail(r.val)
    /\ ret' = NoRet
    /\ UNCHANGED <<nodeVars, instVars, jailVars, threadVars, sarg, scb, resps,
                   deferred, hooklog, callret, errc, relay, cbcalls>>

\* lines 295-297: jail.requestQueue = requestQueue
SendQueueStore ==
    /\ spc = "queue.store"
    /\ requestQueue' = sobj
    /\ sobj' = NoHandle
    /\ spc' = "args"
    /\ ret' = NoRet
    /\ UNCHANGED <<nodeVars, instVars, client, statusJS, cells, nextCell, vm,
                   sem, threadVars, sarg, scb, resps, deferred, hooklog,
                   callret, errc, relay, sresp, sout, cbcalls>>

\* lines 175-192: JSON.stringify(call.Argument(0)), which throws on a cyclic
\* value, and the decoding of its text.
SendDecode ==
    /\ spc = "args"
    /\ IF sarg.cyclic
       THEN sout' = "thrown" /\ spc' = "done"
       ELSE sout' = "none" /\ spc' = "pre"
    /\ ret' = NoRet
    /\ UNCHANGED <<nodeVars, instVars, jailVars, threadVars, sarg, scb, sobj,
                   resps, deferred, hooklog, callret, errc, relay, sresp,
                   cbcalls>>

\* Send called on a nil *Jail: jail.ClientRestartWrapper() returns
\* ErrInvalidJail and Send returns newErrorResponse(call, -32603, err.Error(), nil).
SendNil(cb) ==
    /\ spc = "idle"
    /\ scb' = cb
    /\ sresp' = [isArray |-> FALSE,
                 items |-> <<newErrorResponse(InternalError, ErrInvalidJail, NullId)>>]
    /\ sout' = "response"
    /\ spc' = "done"
    /\ ret' = NoRet
    /\ UNCHANGED <<nodeVars, instVars, jailVars, threadVars, sobj, sarg, resps,
                   deferred, hooklog, callret, errc, relay, cbcalls>>

\* requestQueue.PreProcessRequest(call.Otto, req);
\* defer requestQueue.PostProcessRequest(call.Otto, req);
\* errc, errc2 are made and the relay goroutine is started.
SendPre ==
    /\ spc = "pre"
    /\ Len(resps) < Len(Reqs(sarg))
    /\ LET i == Len(resps) + 1
           req == Reqs(sarg)[i] IN
        /\ hooklog' = Append(hooklog, HookEvent("pre", i, req))
        /\ deferred' = Append(deferred, HookEvent("post", i, req))
    /\ errc' = <<>>
    /\ relay' = [pc |-> "recv", val |-> NoErr]
    /\ spc' = "dispatch"
    /\ ret' = NoRet
    /\ UNCHANGED <<nodeVars, instVars, jailVars, threadVars, sobj, sarg, scb, resps,
                   callret, sresp, sout, cbcalls>>

\* Dispatch with the post hook run when the iteration ends.
SendDispatchPostInLoop(o) ==
    /\ spc = "dispatch"
    /\ Len(errc) < ErrcCap
    /\ LET i == Len(resps) + 1
           req == Reqs(sarg)[i] IN
        /\ hooklog' = hooklog \o <<HookEvent("dispatch", i, req), HookEvent("post", i, req)>>
        /\ deferred' = SubSeq(deferred, 1, Len(deferred) - 1)
    /\ callret' = o
    /\ errc' = Append(errc, o.err)
    /\ spc' = "wait"
    /\ ret' = NoRet
    /\ UNCHANGED <<nodeVars, instVars, jailVars, threadVars, sobj, sarg, scb, resps,
                   relay, sresp, sout, cbcalls>>

\* errc <- client.Call(&result, req.Method, req.Params...): client.Call
\* gives o, its error goes into errc; Send goes on to err = <-errc2.
SendDispatch(o) ==
    /\ spc = "dispatch"
    /\ Len(errc) < ErrcCap
    /\ LET i == Len(resps) + 1
           req == Reqs(sarg)[i] IN
        hooklog' = Append(hooklog, HookEvent("dispatch", i, req))
    /\ callret' = o
    /\ errc' = Append(errc, o.err)
    /\ spc' = "wait"
    /\ ret' = NoRet
    /\ UNCHANGED <<nodeVars, instVars, jailVars, threadVars, sobj, sarg, scb, resps,
                   deferred, relay, sresp, sout, cbcalls>>

\* The relay as it would be if it passed on a nil error whatever it received.
RelayReceiveDropping ==
    /\ relay.pc = "recv"
    /\ errc # <<>>
    /\ relay' = [pc |-> "send", val |-> NoErr]
    /\ errc' = Tail(errc)
    /\ ret' = NoRet
    /\ UNCHANGED <<nodeVars, instVars, jailVars, threadVars, sobj, spc, sarg, scb,
                   resps, deferred, hooklog, callret, sresp, sout, cbcalls>>

\* The relay goroutine receives from errc (<-errc) and goes on to send the
\* value on errc2.
RelayReceive ==
    /\ relay.pc = "recv"
    /\ errc # <<>>
    /\ relay' = [pc |-> "send", val |-> Head(errc)]
    /\ errc' = Tail(errc)
    /\ ret' = NoRet
    /\ UNCHANGED <<nodeVars, instVars, jailVars, threadVars, sobj, spc, sarg, scb,
                   resps, deferred, hooklog, callret, sresp, sout, cbcalls>>

\* err = <-errc2 meets the relay's send on the unbuffered errc2, after
\* which the relay goroutine has nothing left to run; then the switch on
\* err and resps.Call("push", resp).
SendClassify ==
    /\ spc = "wait"
    /\ relay.pc = "send"
    /\ LET i == Len(resps) + 1
           req == Reqs(sarg)[i] IN
        resps' = Append(resps, Classify(req, callret.raw, relay.val))
    /\ relay' = [pc |-> "done", val |-> relay.val]
    /\ spc' = "pre"
    /\ ret' = NoRet
    /\ UNCHANGED <<nodeVars, instVars, jailVars, threadVars, sobj, sarg, scb, deferred,
                   hooklog, callret, errc, sresp, sout, cbcalls>>

\* The loop is over: the response goes to the callback or is returned, and
\* the deferred post hooks run as Send returns.
SendFinish ==
    /\ spc = "pre"
    /\ Len(resps) = Len(Reqs(sarg))
    /\ LET response == IF sarg.batch
                       THEN [isArray |-> TRUE, items |-> resps]
                       ELSE [isArray |-> FALSE, items |-> SubSeq(resps, 1, 1)] IN
        /\ sresp' = response
        /\ IF scb
           THEN /\ cbcalls' = Append(cbcalls, [err |-> "null", response |-> response])
                /\ sout' = "undefined"
           ELSE /\ cbcalls' = cbcalls
                /\ sout' = "response"
    /\ hooklog' = hooklog \o RunDeferred(deferred)
    /\ deferred' = <<>>
    /\ spc' = "done"
    /\ ret' = NoRet
    /\ UNCHANGED <<nodeVars, instVars, jailVars, threadVars, sobj, sarg, scb, resps,
                   callret, errc, relay>>

\* The script that called Send goes on with what Send returned; the values
\* of the finished invocation are dropped.
SendReturn ==
    /\ spc = "done"
    /\ spc' = "idle"
    /\ sarg' = [batch |-> FALSE, cyclic |-> FALSE, calls |-> <<>>]
    /\ scb' = FALSE
    /\ resps' = <<>>
    /\ deferred' = <<>>
    /\ hooklog' = <<>>
    /\ callret' = [raw |-> "", err |-> NoErr]
    /\ errc' = <<>>
    /\ relay' = [pc |-> "none", val |-> NoErr]
    /\ sresp' = [isArray |-> FALSE, items |-> <<>>]
    /\ sout' = "none"
    /\ cbcalls' = <<>>
    /\ ret' = NoRet
    /\ UNCHANGED <<nodeVars, instVars, jailVars, threadVars, sobj>>

\* ------------------------------------------------------------- SpecRegistry
\* The goroutine t is the only one inside an entry point.
OnlyCaller(t) == \A u \in Threads \ {t} : pc[u] = "idle"

\* No goroutine is inside an entry point.
NoCaller == \A u \in Threads : pc[u] = "idle"

NextRegistry ==
    \/ NodeStart
    \/ NodeStop
    \/ New
    \/ GetInstance
    \/ \E js \in BaseScripts : InitJS(js)
    \/ \E t \in Threads : OnlyCaller(t) /\ ClientRestartWrapper(t)
    \/ \E t \in Threads : ClientHasNode(t)
    \/ \E t \in Threads, r \in Resolutions(ManagerClient) : ClientAsk(t, r)
    \/ \E t \in Threads : ClientStore(t)
    \/ \E t \in Threads : ClientReturn(t)
    \/ \E t \in Threads : OnlyCaller(t) /\ RequestQueue(t)
    \/ \E t \in Threads : QueueHasNode(t)
    \/ \E t \in Threads, r \in Resolutions(ManagerQueue) : QueueAsk(t, r)
    \/ \E t \in Threads : QueueStore(t)
    \/ \E t \in Threads : QueueReturn(t)
    \/ \E chatId \in ChatIds : NoCaller /\ GetVM(chatId)
    \/ \E t \in Threads, chatId \in ChatIds :
          OnlyCaller(t) /\ nextCell < MaxRegistryCells /\ ParseStart(t, chatId)
    \/ \E t \in Threads : ParseLoad(t)
    \/ \E t \in Threads : ParseInitJjs(t)
    \/ \E t \in Threads : ParseBase(t)
    \/ \E t \in Threads : ParseJeth(t)
    \/ \E t \in Threads, js \in Scripts : ParseEval(t, js)
    \/ \E t \in Threads : ParseReturn(t)
    \/ \E t \in Threads : ParseNil(t)
    \/ \E t \in Threads : CallNil(t)
    \/ GetVMNil
    \/ ClientRestartWrapperNil
    \/ RequestQueueNil
    \/ \E cb \in BOOLEAN : SendNil(cb)
    \/ SendReturn

SpecRegistry == InitProcess /\ [][NextRegistry]_vars

\* ------------------------------------------------------------- SpecAccessors
\* Goroutines calling the two accessors of a Jail, at the same time, while
\* nodes start and stop.
NextAccessors ==
    \/ NodeStart
    \/ NodeStop
    \/ \E t \in Threads : ClientRestartWrapper(t)
    \/ \E t \in Threads : ClientHasNode(t)
    \/ \E t \in Threads, r \in Resolutions(ManagerClient) : ClientAsk(t, r)
    \/ \E t \in Threads : ClientStore(t)
    \/ \E t \in Threads : ClientReturn(t)
    \/ \E t \in Threads : RequestQueue(t)
    \/ \E t \in Threads : QueueHasNode(t)
    \/ \E t \in Threads, r \in Resolutions(ManagerQueue) : QueueAsk(t, r)
    \/ \E t \in Threads : QueueStore(t)
    \/ \E t \in Threads : QueueReturn(t)

SpecAccessors == Init /\ [][NextAccessors]_vars

\* ------------------------------------------------------------- SpecSend
\* Send is called by the script goroutine 1 is evaluating in the cell of
\* "chatA": under Parse, before any node has started and whatever
\* vm.Run(initJjs) returned, or under Call, which resolved the client and
\* put its ticket into the gate of the cell.
InitSend ==
    /\ jailInstance = "jail1"
    /\ once = TRUE
    /\ statusJS \in BaseScripts
    /\ requestQueue = NoHandle
    /\ cells = [id \in ChatIds |-> IF id = "chatA" THEN 1 ELSE NoCell]
    /\ nextCell = 1
    /\ tcell = [t \in Threads |-> IF t = 1 THEN 1 ELSE NoCell]
    /\ tchat = [t \in Threads |-> NoChat]
    /\ tobj = [t \in Threads |-> NoHandle]
    /\ tbase = [t \in Threads |-> EmptyScript]
    /\ sobj = NoHandle
    /\ \/ /\ pc = [t \in Threads |-> IF t = 1 THEN "parse" ELSE "idle"]
          /\ terr = [t \in Threads |-> IF t = 1 THEN ParseErr(statusJS) ELSE ""]
          /\ vm = [c \in CellRefs |-> IF c = 1 THEN Run(NewVM, statusJS) ELSE NewVM]
          /\ node = FALSE
          /\ client = NoHandle
          /\ sem = [c \in CellRefs |-> 0]
       \/ /\ pc = [t \in Threads |-> IF t = 1 THEN "vm" ELSE "idle"]
          /\ terr = [t \in Threads |-> ""]
          /\ vm = [c \in CellRefs |->
                    IF c = 1 THEN Bootstrapped(Run(NewVM, statusJS), EmptyScript)
                    ELSE NewVM]
          /\ node = TRUE
          /\ client = ManagerClient
          /\ sem = [c \in CellRefs |-> IF c = 1 THEN 1 ELSE 0]
    /\ ret = NoRet
    /\ spc = "idle"
    /\ sarg = [batch |-> FALSE, cyclic |-> FALSE, calls |-> <<>>]
    /\ scb = FALSE
    /\ resps = <<>>
    /\ deferred = <<>>
    /\ hooklog = <<>>
    /\ callret = [raw |-> "", err |-> [kind |-> "nil", code |-> 0, msg |-> ""]]
    /\ errc = <<>>
    /\ relay = [pc |-> "none", val |-> [kind |-> "nil", code |-> 0, msg |-> ""]]
    /\ sresp = [isArray |-> FALSE, items |-> <<>>]
    /\ sout = "none"
    /\ cbcalls = <<>>

NextSend ==
    \/ NodeStart
    \/ NodeStop
    \/ \E arg \in SendArgs, cb \in BOOLEAN : SendStart(arg, cb)
    \/ SendClientHasNode
    \/ \E r \in Resolutions(ManagerClient) : SendClientAsk(r)
    \/ SendClientStore
    \/ SendQueueRead
    \/ SendQueueHasNode
    \/ \E r \in Resolutions(ManagerQueue) : SendQueueAsk(r)
    \/ SendQueueStore
    \/ SendDecode
    \/ SendPre
    \/ \E o \in Outcomes : SendDispatch(o)
    \/ RelayReceive
    \/ SendClassify
    \/ SendFinish
    \/ SendReturn

SpecSend == InitSend /\ [][NextSend]_vars

\* ============================================================= claims, Spec

\* The goroutines executing cell.vm.Call in cell c.
InVM(c) == {t \in Threads : pc[t] = "vm" /\ tcell[t] = c}

\* C1: in every cell, whatever the interleaving of Calls and also when a
\* caller's wait for the gate elapses, at most one Call is executing inside
\* the cell's VM at any time.
C1_AtMostOneCallInVM ==
    \A c \in CellRefs : Cardinality(InVM(c)) <= 1

\* C2: a Call whose wait for the gate of its cell elapses is rejected: the
\* step in which the wait elapses returns an error envelope to the caller,
\* the Call never enters the VM, and no ticket leaves the gate.
C2_TimedOutCallRejected ==
    [][\A t \in Threads :
          (/\ pc[t] = "acquire"
           /\ sem[GateOf(tcell[t])] = SemTickets
           /\ pc'[t] # "acquire")
          => (/\ pc'[t] = "idle"
              /\ ret'.kind = "error"
              /\ sem' = sem)]_vars

\* C3: a Call waiting for the gate of its cell can always acquire it and go
\* on into the VM when no other Call has entered that cell, whatever Calls
\* are in flight in, or waiting on, other cells.
C3_DistinctCellsIndependent ==
    \A t \in Threads :
        (/\ pc[t] = "acquire"
         /\ \A u \in Threads \ {t} :
                pc[u] \in {"vm", "release"} => tcell[u] # tcell[t])
        => ENABLED Acquire(t)

\* C3 witness: two Calls are executing at the same time, each alone in the
\* VM of its cell, in the cells of two different chat ids.
C3_Witness ==
    \E t, u \in Threads, a, b \in ChatIds :
        /\ a # b /\ cells[a] # NoCell /\ cells[b] # NoCell
        /\ pc[t] = "vm" /\ tcell[t] = cells[a] /\ InVM(cells[a]) = {t}
        /\ pc[u] = "vm" /\ tcell[u] = cells[b] /\ InVM(cells[b]) = {u}

\* C6 (as claimed): a Call with a chat id that has no cell returns the
\* CellNotFound error whatever the state of the node, and changes neither
\* the cell mapping nor any gate.  (Call reads its chat id at line 135 for
\* the first time: a Call that returns before is a Call with any chat id.)
C6_UnknownIdCellNotFound ==
    [][\A t \in Threads, id \in ChatIds :
          (/\ cells[id] = NoCell
           /\ pc'[t] = "idle"
           /\ \/ pc[t] \in {"call.has", "call.ask"}
              \/ pc[t] = "lookup" /\ CallLookup(t, id))
          => (/\ ret' = printError(ErrCellNotFound(id))
              /\ cells' = cells /\ nextCell' = nextCell
              /\ sem' = sem /\ vm' = vm)]_vars

\* C6 (amended): a Call with a chat id that has no cell returns an error
\* envelope and changes neither the cell mapping nor any gate nor any VM.
\* The error is CellNotFound when the RPC client is cached or the node
\* manager hands it out; it is ErrInvalidGethNode when no client is cached
\* and no node is running, and the error of the node manager when that
\* fails, and then no client is stored.
C6_UnknownIdFails ==
    [][\A t \in Threads :
          /\ (pc[t] = "call.has" /\ pc'[t] = "idle")
             => (/\ ~node
                 /\ ret' = printError(ErrInvalidGethNode)
                 /\ UNCHANGED <<client, cells, nextCell, sem, vm>>)
          /\ (pc[t] = "call.has" /\ pc'[t] = "call.ask")
             => (node /\ UNCHANGED <<client, cells, nextCell, sem, vm>>)
          /\ (pc[t] = "call.ask" /\ pc'[t] = "idle")
             => (/\ ret' = printError(ErrNodeManager)
                 /\ UNCHANGED <<client, cells, nextCell, sem, vm>>)
          /\ (pc[t] = "call.ask" /\ pc'[t] = "call.store")
             => (/\ tobj'[t] = ManagerClient
                 /\ UNCHANGED <<client, cells, nextCell, sem, vm>>)
          /\ (pc[t] = "call.store" /\ pc'[t] = "lookup")
             => (client' = tobj[t] /\ UNCHANGED <<cells, nextCell, sem, vm>>)
          /\ (pc[t] = "idle" /\ pc'[t] = "lookup") => client # NoHandle
          /\ \A id \in ChatIds :
                (cells[id] = NoCell /\ pc[t] = "lookup" /\ CallLookup(t, id))
                => (/\ pc'[t] = "idle"
                    /\ ret' = printError(ErrCellNotFound(id))
                    /\ UNCHANGED <<client, cells, nextCell, sem, vm>>)]_vars

\* C6 witness: a Call has just returned CellNotFound for a chat id that,
\* while another chat id has a cell, still has none.
C6_Witness ==
    \E id, other \in ChatIds :
        /\ ret = printError(ErrCellNotFound(id))
        /\ cells[id] = NoCell
        /\ cells[other] # NoCell

\* C7: Parse on a chat id that has a cell puts a new JailedRuntime in its
\* place, with a VM in which no script global is defined and a free gate;
\* the cells of the other chat ids, and every other VM and gate, stay as
\* they are; the VM it then takes from the map is the one the map holds for
\* the chat id; and the evaluation that follows adds to that VM only what
\* the base script and the js of this Parse define, and changes no other
\* VM and no entry of the cell mapping.
C7_ReparseReplacesCell ==
    [][\A t \in Threads :
          /\ \A id \in ChatIds :
                (/\ pc[t] = "idle" /\ pc'[t] = "load"
                 /\ tchat'[t] = id
                 /\ cells[id] # NoCell)
                => (/\ cells'[id] # cells[id]
                    /\ cells'[id] > nextCell
                    /\ vm'[cells'[id]] = NewVM
                    /\ sem'[cells'[id]] = 0
                    /\ \A o \in ChatIds \ {id} : cells'[o] = cells[o]
                    /\ \A c \in CellRefs \ {cells'[id]} :
                          vm'[c] = vm[c] /\ sem'[c] = sem[c])
          /\ (pc[t] = "load" /\ pc'[t] = "base")
             => (/\ tcell'[t] = cells[tchat[t]]
                 /\ cells' = cells /\ vm' = vm /\ sem' = sem)
          /\ (pc[t] = "base" /\ pc'[t] = "run")
             => (/\ tcell'[t] = tcell[t] /\ tbase'[t] = statusJS
                 /\ cells' = cells /\ vm' = vm /\ sem' = sem)
          /\ (pc[t] = "run" /\ pc'[t] = "jeth")
             => (/\ tcell'[t] = tcell[t]
                 /\ vm'[tcell[t]] = Run(vm[tcell[t]], tbase[t])
                 /\ \A c \in CellRefs \ {tcell[t]} : vm'[c] = vm[c]
                 /\ cells' = cells /\ sem' = sem)
          /\ (pc[t] = "jeth" /\ pc'[t] = "parse")
             => (/\ tcell'[t] = tcell[t]
                 /\ cells' = cells /\ vm' = vm /\ sem' = sem)
          /\ (pc[t] = "parse" /\ pc'[t] = "get")
             => (/\ tcell'[t] = tcell[t]
                 /\ \E js \in Scripts :
                       vm'[tcell[t]] = Bootstrapped(vm[tcell[t]], js)
                 /\ \A c \in CellRefs \ {tcell[t]} : vm'[c] = vm[c]
                 /\ cells' = cells /\ sem' = sem)
          /\ (pc[t] = "get" /\ pc'[t] = "idle")
             => (cells' = cells /\ vm' = vm /\ sem' = sem)]_vars

\* C7 witness: of two chat ids that have a cell, whose VMs hold script
\* globals, one is being parsed again: the cell it had still holds its
\* globals, its new cell holds none, and the cell of the other chat id is
\* as it was.
C7_Witness ==
    \E t \in Threads, id, o \in ChatIds, old \in CellRefs :
        /\ o # id
        /\ cells[o] # NoCell /\ vm[cells[o]] # NewVM
        /\ pc[t] = "parse" /\ tcell[t] = cells[id]
        /\ \A u \in Threads \ {t} : pc[u] = "idle"
        /\ old < cells[id] /\ old # cells[o]
        /\ vm[old] # NewVM
        /\ vm[cells[id]] = NewVM

\* C8: Parse returns the result envelope only when every step of the
\* bootstrap succeeded: the base script, the web3 preamble, the js of the
\* caller and the catalog trailer; if one of them fails it returns the
\* error envelope.  That is: a Parse whose vm.Run(initJjs) or vm.Run(jjs)
\* fails holds an error from then on, and a Parse that returns gives the
\* result envelope when it holds no error and the error envelope when it
\* holds one.
C8_ParseResultOnlyOnSuccess ==
    [][\A t \in Threads :
          /\ (pc[t] = "run" /\ pc'[t] = "jeth" /\ tbase[t].fail # "none")
             => terr'[t] # ""
          /\ \A js \in Scripts :
                (pc[t] = "parse" /\ ParseEval(t, js) /\ RunFails(vm[tcell[t]], js))
                => terr'[t] # ""
          /\ (pc[t] \in {"jeth", "parse"} /\ pc'[t] \in {"parse", "get"} /\ terr[t] # "")
             => terr'[t] # ""
          /\ (pc[t] = "get" /\ pc'[t] = "idle")
             => (ret'.kind = "result" <=> terr[t] = "")]_vars

\* C15: every Call whose evaluation in the VM is over can return: the
\* deferred Release finds a ticket in the gate of its cell, or a Call that
\* is waiting for this gate is about to put one in; and a cell that no
\* Call is waiting for, evaluating in or releasing has a free gate.
C15_FinishedCallReturns ==
    /\ \A t \in Threads :
          pc[t] = "release"
          => \/ sem[GateOf(tcell[t])] > 0
             \/ \E u \in Threads \ {t} : pc[u] = "acquire" /\ tcell[u] = tcell[t]
    /\ \A c \in CellRefs :
          (\A t \in Threads : tcell[t] = c => pc[t] \notin {"acquire", "vm", "release"})
          => sem[GateOf(c)] = 0

\* C17: no two goroutines evaluate in the VM of one cell at the same time,
\* be it under Parse or under Call: no Call executes in a VM that a Parse
\* is still bootstrapping, and no two Parses evaluate in one VM.
C17_OneEvaluatorPerVM ==
    \A c \in CellRefs :
        Cardinality({t \in Threads : /\ pc[t] \in {"run", "jeth", "parse", "get", "vm"}
                                      /\ tcell[t] = c}) <= 1

\* ============================================================= claims, SpecRegistry

\* C12: the two fields hold nothing but nil or the object the node manager
\* hands out, and a step that returns an error changes neither (no failure
\* is cached); a call that finds its field nil asks again: it passes
\* HasNode() when a node is running and can then get the object; once a
\* field holds a handle it never changes; a call made with the handle
\* cached returns it in its first step, with or without a node, and never
\* goes on to the node manager; and what a resolving call returns is the
\* cached handle.
C12_HandleResolvedOnce ==
    /\ [](/\ client \in {NoHandle, ManagerClient}
          /\ requestQueue \in {NoHandle, ManagerQueue}
          /\ \A t \in Threads :
                /\ pc[t] = "client.ask"
                   => ENABLED ClientAsk(t, [ok |-> TRUE, val |-> ManagerClient])
                /\ pc[t] = "queue.ask"
                   => ENABLED QueueAsk(t, [ok |-> TRUE, val |-> ManagerQueue]))
    /\ [][/\ client # NoHandle => client' = client
          /\ requestQueue # NoHandle => requestQueue' = requestQueue
          /\ ret'.kind = "err" => UNCHANGED <<client, requestQueue>>
          /\ \A t \in Threads :
                /\ (pc[t] = "idle" /\ pc'[t] = "client.has") => client = NoHandle
                /\ (pc[t] = "idle" /\ pc'[t] = "queue.has") => requestQueue = NoHandle
                /\ (pc[t] \in {"client.has", "queue.has"} /\ pc'[t] = "idle") => ~node
                /\ (client # NoHandle /\ ClientRestartWrapper(t))
                   => (ret' = HandleValue(client) /\ pc'[t] = "idle")
                /\ (requestQueue # NoHandle /\ RequestQueue(t))
                   => (ret' = HandleValue(requestQueue) /\ pc'[t] = "idle")
                /\ (pc[t] = "client.ret" /\ pc'[t] = "idle")
                   => (client = ManagerClient /\ ret' = HandleValue(client))
                /\ (pc[t] = "queue.ret" /\ pc'[t] = "idle")
                   => (requestQueue = ManagerQueue
                       /\ ret' = HandleValue(requestQueue))]_vars

\* C12 witness: both handles are cached, no node is running, no call is
\* under way, and the call that returned last returned the cached client.
C12_Witness ==
    /\ client = ManagerClient
    /\ requestQueue = ManagerQueue
    /\ ~node
    /\ \A t \in Threads : pc[t] = "idle"
    /\ ret = HandleValue(ManagerClient)

\* C13: once the Jail exists, jailInstance never changes; New, Init and
\* GetInstance return jailInstance; New and GetInstance change no field of
\* an existing Jail; Init(js) sets statusJS to js and changes neither the
\* cell mapping nor the cached client and request queue.
C13_OneInstance ==
    [][/\ jailInstance # NoJail => jailInstance' = jailInstance
       /\ ret'.kind = "jail" => (jailInstance' # NoJail /\ ret'.val = jailInstance')
       /\ ((New \/ GetInstance) /\ jailInstance # NoJail)
          => UNCHANGED <<jailVars, nodeVars>>
       /\ \A js \in BaseScripts :
             InitJS(js)
             => /\ statusJS' = js
                /\ jailInstance # NoJail
                   => UNCHANGED <<client, requestQueue, cells, nextCell, vm, sem>>]_vars

\* C13 witness: Init(js) has just returned the Jail, with a base script that
\* differs from the one it was constructed with, while the Jail holds a
\* cell and a cached client.
C13_Witness ==
    /\ ret = JailValue(jailInstance)
    /\ statusJS.fail # "none"
    /\ client # NoHandle
    /\ \E id \in ChatIds : cells[id] # NoCell

\* C14: Parse and Call on a nil *Jail return the error envelope of
\* ErrInvalidJail; GetVM, ClientRestartWrapper and RequestQueue return
\* ErrInvalidJail as their error; Send returns a response with an error
\* member that carries the text of ErrInvalidJail; none of them panics or
\* changes a cell, a gate, a VM or a cached handle.
C14_NilJailReported ==
    [][/\ (\E t \in Threads : ParseNil(t) \/ CallNil(t))
          => (ret' = printError(ErrInvalidJail) /\ UNCHANGED <<jailVars, threadVars>>)
       /\ (GetVMNil \/ ClientRestartWrapperNil \/ RequestQueueNil)
          => (ret' = ErrValue(ErrInvalidJail) /\ UNCHANGED <<jailVars, threadVars>>)
       /\ (\E cb \in BOOLEAN : SendNil(cb))
          => /\ Len(sresp'.items) = 1
             /\ sresp'.items[1].member = "error"
             /\ sresp'.items[1].msg = ErrInvalidJail
             /\ sout' = "response"
             /\ UNCHANGED <<jailVars, threadVars>>
       /\ ret'.kind # "panic"]_vars

\* C14 witness: an entry point called on a nil *Jail has just returned the
\* ErrInvalidJail envelope while the Jail of the process holds a cell and a
\* cached client.
C14_Witness ==
    /\ ret = printError(ErrInvalidJail)
    /\ jailInstance # NoJail
    /\ client # NoHandle
    /\ \E id \in ChatIds : cells[id] # NoCell


\* ============================================================= claims, SpecSend

\* C4: Send answers a batch of N calls with a sequence of exactly N
\* responses, the i-th carrying the id of the i-th call.
C4_BatchResponsePerRequest ==
    (spc = "done" /\ sarg.batch)
    => (/\ sresp.isArray
        /\ Len(sresp.items) = Len(sarg.calls)
        /\ \A i \in 1..Len(sarg.calls) : sresp.items[i].id = sarg.calls[i].id)

\* C5: Send answers a single call with one response that carries the id
\* of the call, whatever the outcome.
C5_SingleResponseEchoesId ==
    (spc = "done" /\ ~sarg.batch /\ ~sarg.cyclic)
    => (/\ ~sresp.isArray
        /\ Len(sresp.items) = 1
        /\ sresp.items[1].id = sarg.calls[1].id)

\* The positions of the events ev of call i in the hook log.
Events(ev, i) == {k \in 1..Len(hooklog) : hooklog[k].ev = ev /\ hooklog[k].i = i}

\* C9: for every call of one Send: the pre hook runs once, before the
\* dispatch of the call; the post hook runs once, after that dispatch,
\* whatever its outcome; and no post hook runs before the last dispatch of
\* the batch is over.
C9_HooksStraddleDispatch ==
    /\ \A k \in 1..Len(hooklog) :
          /\ hooklog[k].req = Reqs(sarg)[hooklog[k].i]
          /\ hooklog[k].ev = "dispatch"
             => \E p \in 1..(k - 1) : hooklog[p] = HookEvent("pre", hooklog[k].i, hooklog[k].req)
          /\ hooklog[k].ev = "post"
             => /\ \A i \in 1..Len(sarg.calls) : \E d \in Events("dispatch", i) : d < k
                /\ \A d \in 1..Len(hooklog) : hooklog[d].ev = "dispatch" => d < k
    /\ \A i \in 1..Len(sarg.calls) :
          /\ Cardinality(Events("pre", i)) <= 1
          /\ Cardinality(Events("dispatch", i)) <= 1
          /\ Cardinality(Events("post", i)) <= 1
          /\ i <= Len(resps) => Cardinality(Events("pre", i)) = 1
                                /\ Cardinality(Events("dispatch", i)) = 1
    /\ (spc = "done" /\ sout # "none" /\ Len(resps) = Len(sarg.calls))
       => \A i \in 1..Len(sarg.calls) : Cardinality(Events("post", i)) = 1

\* C9 witness: Send is over for a batch of two calls of which the first
\* failed in the backend and the second succeeded; all hooks have run.
C9_Witness ==
    /\ spc = "done" /\ sarg.batch /\ Len(sarg.calls) = 2
    /\ Len(resps) = 2
    /\ resps[1].member = "error" /\ resps[2].member = "result"
    /\ Len(hooklog) = 6

\* C10: when the second argument of Send is a function, Send calls it once,
\* as callback(null, response), and returns undefined, on every path; when
\* it is not, Send calls nothing and returns the response.
C10_CallbackOnEveryPath ==
    (spc = "done" /\ sout # "thrown")
    => IF scb
       THEN cbcalls = <<[err |-> "null", response |-> sresp]>> /\ sout = "undefined"
       ELSE cbcalls = <<>> /\ sout = "response"

\* C11: every response Send pushes is {jsonrpc: "2.0", id, result | error}
\* with the id of its request and with the member the outcome of client.Call
\* asks for: a structured error gives error = {code, message} with its code
\* and message; any other error gives error = {code: -32603, message: text};
\* a nil result gives result = native null; a result that parses gives
\* result = the parsed value; one that does not gives error = {code: -32603,
\* message: text}.
C11_ResponseShape ==
    [][Len(resps') = Len(resps) + 1
       => LET r == resps'[Len(resps')]
              req == Reqs(sarg)[Len(resps')]
              IsError(code, msg) == /\ r.member = "error"
                                    /\ r.code = code
                                    /\ r.msgKey = "message"
                                    /\ r.msg = msg IN
          /\ r.verKey = "jsonrpc"
          /\ r.id = req.id
          /\ IF callret.err.kind = "rpc"
             THEN IsError(callret.err.code, callret.err.msg)
             ELSE IF callret.err.kind # "nil"
             THEN IsError(InternalError, callret.err.msg)
             ELSE IF callret.raw = ""
             THEN r.member = "result" /\ r.value = NullValue /\ r.value # "\"null\""
             ELSE IF JSONParse(callret.raw).ok
             THEN r.member = "result" /\ r.value = JSONParse(callret.raw).val
             ELSE IsError(InternalError, JSONParse(callret.raw).val)]_vars

\* C16: while Send runs its hooks and dispatches, the gate of the cell whose
\* script called it holds a ticket that Send put in, that is one more than
\* the Calls inside the cell put in; and when Send has returned that
\* ticket is out again.
C16_SendAcquiresGate ==
    \A t \in Threads :
        pc[t] \in {"parse", "vm"}
        => LET held == sem[GateOf(tcell[t])]
               calls == Cardinality({u \in Threads :
                            pc[u] \in {"vm", "release"} /\ tcell[u] = tcell[t]})
           IN /\ (hooklog # <<>> /\ spc # "done") => held = calls + 1
              /\ spc = "done" => held = calls

\* C18: the post hooks of one Send run in the order of the requests: the
\* post hook of request i before the one of request j when i < j.
C18_PostHooksInRequestOrder ==
    \A k, l \in 1..Len(hooklog) :
        (k < l /\ hooklog[k].ev = "post" /\ hooklog[l].ev = "post")
        => hooklog[k].i < hooklog[l].i

\* C19: when the first argument cannot be decoded into a call or a
\* sequence of calls, Send runs no pre hook and no dispatch for it, and what
\* it reports is an exception thrown to the script (or, when an accessor
\* failed before the argument was looked at, the response of that failure).
C19_UndecodableArgumentThrows ==
    (spc # "idle" /\ ~Decodable(sarg))
    => /\ hooklog = <<>>
       /\ spc = "done" => \/ sout = "thrown"
                          \/ (resps = <<>> /\ Len(sresp.items) = 1)

\* C20: the hand-off never blocks Send: errc has room for the error of
\* client.Call, and while Send waits on errc2 the relay can receive or
\* hand over; outside a dispatch no relay goroutine is waiting and errc is
\* empty; and what Send receives from errc2 is the error client.Call
\* returned, so the response pushed is the one a direct call would give.
C20_RelayIsSynchronous ==
    /\ [](/\ spc = "dispatch" => ENABLED (\E o \in Outcomes : SendDispatch(o))
          /\ spc = "wait" => (ENABLED RelayReceive \/ ENABLED SendClassify)
          /\ spc \notin {"dispatch", "wait"}
             => (relay.pc \in {"none", "done"} /\ errc = <<>>))
    /\ [][(spc = "wait" /\ spc' = "pre")
          => /\ relay.val = callret.err
             /\ relay'.pc = "done"
             /\ resps' = Append(resps, Classify(Reqs(sarg)[Len(resps')],
                                                callret.raw, callret.err))]_vars

\* C20 witness: Send goes on to the second request of a batch after the
\* relay of the first dispatch handed over a non-nil error and finished.
C20_Witness ==
    /\ spc = "pre"
    /\ Len(Reqs(sarg)) = 2
    /\ Len(resps) = 1
    /\ relay.pc = "done"
    /\ relay.val.kind = "other"
    /\ resps[1].member = "error"

====
